---- MODULE Spec2Model ----
(***************************************************************************)
(* mongoquerier: the struct-to-filter projection (StructToM), the JSON     *)
(* round-trip cast (CastStruct) and the Querier operations built on them.  *)
(*                                                                         *)
(* A key "a.b.c" is the sequence <<"a","b","c">> of its dot-free segments, *)
(* so fmt.Sprintf("%s.%s", k, c) is k \o c.  Go values carry their kind:   *)
(* [k |-> kind, v |-> payload].  JSON numbers are counted in hundredths.   *)
(***************************************************************************)
EXTENDS Integers, Sequences, FiniteSets, TLC

VARIABLES source, projRet, castS, castD, castSrc, castDst, castBack,
          model, callPc, callLocal, callResult, callRet,
          qModel, qIDModel, qIsIDComposite, coll, nextID, lastOp,
          runSource, stack, runRet

projVars == <<source, projRet>>
castVars == <<castS, castD, castSrc, castDst, castBack>>
callVars == <<model, callPc, callLocal, callResult, callRet>>
storeVars == <<qModel, qIDModel, qIsIDComposite, coll, nextID, lastOp>>
runVars == <<runSource, stack, runRet>>
vars == <<projVars, castVars, callVars, storeVars, runVars>>

----------------------------------------------------------------------------
(* Bounds *)

MaxInt == 5
NumCalls == 2
MaxDocs == 2
MaxChain == 2

----------------------------------------------------------------------------
(* Types of the models *)

TInt == [kind |-> "int", name |-> ""]
TFloat == [kind |-> "float", name |-> ""]
TString == [kind |-> "string", name |-> ""]
TTime == [kind |-> "time", name |-> ""]
TChan == [kind |-> "chan", name |-> ""]
TOid == [kind |-> "oid", name |-> ""]
TPtr(elem) == [kind |-> "ptr", name |-> elem]
TStruct(n) == [kind |-> "struct", name |-> n]

\* a struct tag value is the sequence of its comma-separated parts; no tag is <<"">>
NoTag == <<"">>

Fld(n, j, b, t) == [name |-> n, json |-> j, bson |-> b, type |-> t]

\* README model: bson annotations only
ProductFields ==
  << Fld("ID", NoTag, <<"_id", "omitempty">>, TPtr("oid")),
     Fld("Name", NoTag, <<"name">>, TString),
     Fld("Price", NoTag, <<"price">>, TFloat),
     Fld("Quantity", NoTag, <<"quantity">>, TInt) >>

\* the same model with external keys name/price/quantity
ItemFields ==
  << Fld("Name", <<"name">>, NoTag, TString),
     Fld("Price", <<"price">>, NoTag, TFloat),
     Fld("Quantity", <<"quantity">>, NoTag, TInt) >>

GeoFields ==
  << Fld("Lat", <<"lat">>, NoTag, TInt) >>

AddressFields ==
  << Fld("City", <<"city">>, NoTag, TString),
     Fld("Zip", <<"zip">>, NoTag, TString),
     Fld("Geo", <<"geo">>, NoTag, TStruct("Geo")) >>

CustomerFields ==
  << Fld("Name", <<"name">>, NoTag, TString),
     Fld("Addr", <<"addr">>, NoTag, TStruct("Address")) >>

NoteFields ==
  << Fld("Text", <<"text", "omitempty">>, NoTag, TString),
     Fld("Ref", <<"ref">>, NoTag, TPtr("int")),
     Fld("Count", NoTag, NoTag, TInt) >>

NoteViewFields ==
  << Fld("Text", <<"text">>, NoTag, TString),
     Fld("Ref", <<"ref">>, NoTag, TInt) >>

EventFields ==
  << Fld("Title", <<"title">>, NoTag, TString),
     Fld("At", <<"at">>, NoTag, TTime),
     Fld("Secret", <<"-">>, NoTag, TString) >>

BadFields ==
  << Fld("N", <<"n">>, NoTag, TInt),
     Fld("C", <<"c">>, NoTag, TChan) >>

\* a self-referential model: a record cannot hold itself by value, only
\* through a pointer
NodeFields ==
  << Fld("Value", <<"value">>, NoTag, TInt),
     Fld("Next", <<"next">>, NoTag, TPtr("Node")) >>

\* a model that refers to a record through a pointer
PlaceFields ==
  << Fld("Label", <<"label">>, NoTag, TString),
     Fld("Geo", <<"geo">>, NoTag, TPtr("Geo")) >>

\* a composite identifier
KeyFields ==
  << Fld("Tenant", <<"tenant">>, <<"tenant">>, TString),
     Fld("Seq", <<"seq">>, <<"seq">>, TInt) >>

\* a model with a composite identifier, annotated for json and bson
OrderFields ==
  << Fld("ID", <<"_id">>, <<"_id">>, TStruct("Key")),
     Fld("Name", <<"name">>, <<"name">>, TString) >>

\* a model with a composite identifier, annotated as the README's Product is
TicketFields ==
  << Fld("ID", NoTag, <<"_id">>, TStruct("Key")),
     Fld("Name", NoTag, <<"name">>, TString) >>

\* a model with a string identifier
TagFields ==
  << Fld("ID", <<"_id">>, <<"_id">>, TString),
     Fld("Name", <<"name">>, <<"name">>, TString) >>

\* IDContainer[IDModel]
IDContainerFields(IDModel) ==
  << Fld("ID", <<"_id", "omitempty">>, NoTag, IDModel) >>

StructNames ==
  {"Product", "Item", "Geo", "Address", "Customer", "Note", "NoteView", "Event", "Bad",
   "Place", "Node"}

Fields(n) ==
  CASE n = "Product" -> ProductFields
    [] n = "Item" -> ItemFields
    [] n = "Geo" -> GeoFields
    [] n = "Address" -> AddressFields
    [] n = "Customer" -> CustomerFields
    [] n = "Note" -> NoteFields
    [] n = "NoteView" -> NoteViewFields
    [] n = "Event" -> EventFields
    [] n = "Bad" -> BadFields
    [] n = "Place" -> PlaceFields
    [] n = "Node" -> NodeFields
    [] n = "Key" -> KeyFields
    [] n = "Order" -> OrderFields
    [] n = "Ticket" -> TicketFields
    [] n = "Tag" -> TagFields
    [] n = "IDContainer[Key]" -> IDContainerFields(TStruct("Key"))
    [] n = "IDContainer[string]" -> IDContainerFields(TString)
    [] n = "IDContainer[ObjectID]" -> IDContainerFields(TOid)

ElemType(n) ==
  CASE n = "int" -> TInt
    [] n = "oid" -> TOid
    [] OTHER -> TStruct(n)

----------------------------------------------------------------------------
(* Values *)

IntVals == 0 .. MaxInt
FloatVals == {0, 9999}
StringVals == {"", "Widget"}
TimeVals == {"0001-01-01T00:00:00Z", "2024-01-01T00:00:00Z"}
OidVals == {"000000000000000000000000", "65a000000000000000000001"}

Val(k, v) == [k |-> k, v |-> v]
Nil == Val("nil", 0)

\* a pointer back to the node that holds it
Cycle == Val("cycle", 0)

\* the lists of at most d nodes: each ends in nil or in a node that points
\* to itself
RECURSIVE NodeVals(_)
NodeVals(d) ==
  IF d = 0 THEN {}
  ELSE {Val("struct", <<Val("int", n), p>>) :
          n \in {0, MaxInt},
          p \in {Nil, Cycle} \cup {Val("ptr", q) : q \in NodeVals(d - 1)}}

RECURSIVE ValuesOf(_), FieldSeqs(_, _)
ValuesOf(t) ==
  CASE t.kind = "int" -> {Val("int", n) : n \in IntVals}
    [] t.kind = "float" -> {Val("float", n) : n \in FloatVals}
    [] t.kind = "string" -> {Val("string", s) : s \in StringVals}
    [] t.kind = "time" -> {Val("time", s) : s \in TimeVals}
    [] t.kind = "oid" -> {Val("oid", s) : s \in OidVals}
    [] t.kind = "chan" -> {Nil}
    [] t.kind = "ptr" ->
         IF t.name = "Node"
         THEN {Nil, Cycle} \cup {Val("ptr", p) : p \in NodeVals(MaxChain - 1)}
         ELSE {Nil} \cup {Val("ptr", p) : p \in ValuesOf(ElemType(t.name))}
    [] t.kind = "struct" -> {Val("struct", s) : s \in FieldSeqs(Fields(t.name), Len(Fields(t.name)))}
FieldSeqs(fs, n) ==
  IF n = 0 THEN {<<>>}
  ELSE {Append(p, v) : p \in FieldSeqs(fs, n - 1), v \in ValuesOf(fs[n].type)}

\* an interface{} value: dynamic type and value
Iface(t, v) == [type |-> t, val |-> v]

\* reflect.Zero(t)
RECURSIVE Zero(_)
Zero(t) ==
  CASE t.kind = "int" -> Val("int", 0)
    [] t.kind = "float" -> Val("float", 0)
    [] t.kind = "string" -> Val("string", "")
    [] t.kind = "time" -> Val("time", "0001-01-01T00:00:00Z")
    [] t.kind = "oid" -> Val("oid", "000000000000000000000000")
    [] t.kind = "chan" -> Nil
    [] t.kind = "ptr" -> Nil
    [] t.kind = "struct" ->
         Val("struct", [i \in 1 .. Len(Fields(t.name)) |-> Zero(Fields(t.name)[i].type)])

----------------------------------------------------------------------------
(* encoding/json as StructToM and CastStruct use it *)

JNum(n) == Val("num", n)
JStr(s) == Val("str", s)
JNull == Val("null", 0)
JObj(pairs) == Val("obj", pairs)

OkJ(j) == [err |-> FALSE, json |-> j]
ErrJ == [err |-> TRUE, json |-> JNull]

HasOpt(tag, opt) == \E i \in 2 .. Len(tag) : tag[i] = opt

\* the name encoding/json gives a field: the tag's name, else the field's name
JSONName(f) == IF f.json[1] # "" THEN f.json[1] ELSE f.name

\* a field tagged "-" is never encoded
JSONSkipped(f) == f.json = <<"-">>

\* encoding/json isEmptyValue: what omitempty leaves out
IsEmptyValue(t, v) ==
  CASE t.kind = "int" -> v.v = 0
    [] t.kind = "float" -> v.v = 0
    [] t.kind = "string" -> v.v = ""
    [] t.kind = "ptr" -> v = Nil
    [] OTHER -> FALSE

RECURSIVE Marshal(_, _), MarshalFields(_, _, _)
Marshal(t, v) ==
  CASE t.kind = "int" -> OkJ(JNum(v.v * 100))
    [] t.kind = "float" -> OkJ(JNum(v.v))
    [] t.kind = "string" -> OkJ(JStr(v.v))
    [] t.kind = "time" -> OkJ(JStr(v.v))
    [] t.kind = "oid" -> OkJ(JStr(v.v))
    [] t.kind = "chan" -> ErrJ
    [] t.kind = "ptr" ->
         IF v = Nil THEN OkJ(JNull)
         ELSE IF v = Cycle THEN ErrJ
         ELSE Marshal(ElemType(t.name), v.v)
    [] t.kind = "struct" -> MarshalFields(Fields(t.name), v.v, Len(Fields(t.name)))
MarshalFields(fs, vs, n) ==
  IF n = 0 THEN OkJ(JObj(<<>>))
  ELSE LET prev == MarshalFields(fs, vs, n - 1) IN
       IF prev.err THEN prev
       ELSE IF JSONSkipped(fs[n]) THEN prev
       ELSE IF HasOpt(fs[n].json, "omitempty") /\ IsEmptyValue(fs[n].type, vs[n]) THEN prev
       ELSE LET m == Marshal(fs[n].type, vs[n]) IN
            IF m.err THEN m
            ELSE OkJ(JObj(Append(prev.json.v, [key |-> JSONName(fs[n]), val |-> m.json])))

\* json.Unmarshal into a map[string]interface{}: an object or null, else an error
UnmarshalMap(j) ==
  CASE j.k = "obj" ->
         [err |-> FALSE,
          data |-> [key \in {j.v[i].key : i \in 1 .. Len(j.v)} |->
                      LET last == CHOOSE i \in 1 .. Len(j.v) :
                                    /\ j.v[i].key = key
                                    /\ \A i2 \in 1 .. Len(j.v) : j.v[i2].key = key => i2 <= i
                      IN j.v[last].val]]
    [] j.k = "null" -> [err |-> FALSE, data |-> <<>>]
    [] OTHER -> [err |-> TRUE, data |-> <<>>]

\* strings.ToLower on the names the models use
Lower(s) ==
  CASE s = "ID" -> "id"
    [] s = "Name" -> "name"
    [] s = "Price" -> "price"
    [] s = "Quantity" -> "quantity"
    [] s = "Lat" -> "lat"
    [] s = "City" -> "city"
    [] s = "Zip" -> "zip"
    [] s = "Geo" -> "geo"
    [] s = "Addr" -> "addr"
    [] s = "Text" -> "text"
    [] s = "Ref" -> "ref"
    [] s = "Count" -> "count"
    [] s = "Title" -> "title"
    [] s = "At" -> "at"
    [] s = "Secret" -> "secret"
    [] s = "N" -> "n"
    [] s = "C" -> "c"
    [] s = "Label" -> "label"
    [] s = "Value" -> "value"
    [] s = "Tenant" -> "tenant"
    [] s = "Seq" -> "seq"
    [] s = "Next" -> "next"
    [] OTHER -> s

EqualFold(a, b) == Lower(a) = Lower(b)

\* the field a JSON object key decodes into: an exact match, else the first
\* match up to letter case; 0 when there is none
MatchField(fs, key) ==
  LET cand == {i \in 1 .. Len(fs) : ~JSONSkipped(fs[i])}
      exact == {i \in cand : JSONName(fs[i]) = key}
      fold == {i \in cand : EqualFold(JSONName(fs[i]), key)}
      first(S) == CHOOSE i \in S : \A i2 \in S : i <= i2
  IN IF exact # {} THEN first(exact)
     ELSE IF fold # {} THEN first(fold)
     ELSE 0

OkV(v) == [err |-> FALSE, val |-> v]
ErrV(v) == [err |-> TRUE, val |-> v]

\* json.Unmarshal into a typed value that currently holds cur; a value of the
\* wrong JSON shape is an error and leaves the target as it is
RECURSIVE Unmarshal(_, _, _), UnmarshalPairs(_, _, _, _)
Unmarshal(j, t, cur) ==
  CASE t.kind = "ptr" ->
         IF j.k = "null" THEN OkV(Nil)
         ELSE LET elem == ElemType(t.name)
                  r == Unmarshal(j, elem, IF cur = Nil THEN Zero(elem) ELSE cur.v)
              IN [err |-> r.err, val |-> Val("ptr", r.val)]
    [] j.k = "null" -> OkV(cur)
    [] t.kind = "int" ->
         IF j.k = "num" /\ j.v % 100 = 0 THEN OkV(Val("int", j.v \div 100)) ELSE ErrV(cur)
    [] t.kind = "float" -> IF j.k = "num" THEN OkV(Val("float", j.v)) ELSE ErrV(cur)
    [] t.kind = "string" -> IF j.k = "str" THEN OkV(Val("string", j.v)) ELSE ErrV(cur)
    [] t.kind = "time" ->
         IF j.k = "str" /\ j.v \in TimeVals THEN OkV(Val("time", j.v)) ELSE ErrV(cur)
    [] t.kind = "oid" ->
         IF j.k = "str" /\ j.v \in OidVals THEN OkV(Val("oid", j.v)) ELSE ErrV(cur)
    [] t.kind = "chan" -> ErrV(cur)
    [] t.kind = "struct" ->
         IF j.k = "obj" THEN UnmarshalPairs(j.v, Fields(t.name), cur, Len(j.v)) ELSE ErrV(cur)
UnmarshalPairs(pairs, fs, cur, n) ==
  IF n = 0 THEN OkV(cur)
  ELSE LET prev == UnmarshalPairs(pairs, fs, cur, n - 1)
           i == MatchField(fs, pairs[n].key)
       IN IF i = 0 THEN prev
          ELSE LET r == Unmarshal(pairs[n].val, fs[i].type, prev.val.v[i])
               IN [err |-> prev.err \/ r.err,
                   val |-> Val("struct", [prev.val.v EXCEPT ![i] = r.val])]

----------------------------------------------------------------------------
(* Calls of StructToM in flight: each call has its own locals *)

Calls == 1 .. NumCalls

NoLocal == [source |-> Iface(TInt, Val("int", 0)), json |-> JNull, data |-> <<>>, i |-> 0]

CallsIdle ==
  /\ model = Iface(TInt, Val("int", 0))
  /\ callPc = [c \in Calls |-> "idle"]
  /\ callLocal = [c \in Calls |-> NoLocal]
  /\ callResult = [c \in Calls |-> <<>>]
  /\ callRet = [c \in Calls |-> [out |-> "none", m |-> <<>>]]

NoModel == Val("none", 0)

NoOp ==
  [op |-> "none", filter |-> NoModel, update |-> NoModel, filterM |-> <<>>, updateM |-> <<>>,
   out |-> "none", before |-> <<>>, hit |-> {}, insertedID |-> NoModel, err |-> "nil"]

StoreIdle ==
  /\ qModel = "Item"
  /\ qIDModel = TOid
  /\ qIsIDComposite = FALSE
  /\ coll = <<>>
  /\ nextID = 1
  /\ lastOp = NoOp

RunIdle ==
  /\ runSource = Iface(TInt, Val("int", 0))
  /\ stack = <<>>
  /\ runRet = [out |-> "none", m |-> <<>>]

----------------------------------------------------------------------------
(* CastStruct *)

\* a cast that decodes into a copy and returns the untouched destination
CastStructIntoCopy(S, D, src) ==
  IF Marshal(S, src).err THEN ErrV(Zero(D)) ELSE OkV(Zero(D))

CastStruct(S, D, src) ==
  LET sourceJSON == Marshal(S, src) IN
  IF sourceJSON.err THEN ErrV(Zero(D))
  ELSE Unmarshal(sourceJSON.json, D, Zero(D))

NoCast == [err |-> FALSE, val |-> Val("none", 0)]

CastIdle ==
  /\ castS = "Item"
  /\ castD = "Item"
  /\ castSrc = Zero(TStruct("Item"))
  /\ castDst = NoCast
  /\ castBack = NoCast

InitCast ==
  /\ castS \in StructNames
  /\ castD \in StructNames
  /\ castSrc \in ValuesOf(TStruct(castS))
  /\ castDst = NoCast
  /\ castBack = NoCast
  /\ source = Iface(TInt, Val("int", 0))
  /\ projRet = [out |-> "none", m |-> <<>>]
  /\ CallsIdle
  /\ StoreIdle
  /\ RunIdle

\* destination, err := CastStruct[S, D](source)
Cast ==
  /\ castDst = NoCast
  /\ castDst' = CastStruct(TStruct(castS), TStruct(castD), castSrc)
  /\ UNCHANGED <<castS, castD, castSrc, castBack, projVars, callVars, storeVars, runVars>>

\* the cast of the destination back to the source's type
CastBack ==
  /\ castDst # NoCast
  /\ ~castDst.err
  /\ castBack = NoCast
  /\ castBack' = CastStruct(TStruct(castD), TStruct(castS), castDst.val)
  /\ UNCHANGED <<castS, castD, castSrc, castDst, projVars, callVars, storeVars, runVars>>

NextCast == Cast \/ CastBack

SpecCast == InitCast /\ [][NextCast]_vars

----------------------------------------------------------------------------
(* StructToM *)

\* reflect.Type.Kind()
ReflectKind(t) ==
  CASE t.kind = "struct" -> "struct"
    [] t.kind = "time" -> "struct"
    [] t.kind = "oid" -> "array"
    [] OTHER -> t.kind

DeepEqual(a, b) == a = b

Ret(o, m) == [out |-> o, m |-> m]

JsonKey(f) ==
  LET tagValue == f.json
      jsonKey == tagValue[1]
  IN IF jsonKey = "" THEN f.name ELSE jsonKey

\* fmt.Sprintf("%s.%s", jsonKey, valueKey)
Sprintf(jsonKey, valueKey) == <<jsonKey>> \o valueKey

Put(m, key, v) == [x \in DOMAIN m \cup {key} |-> IF x = key THEN v ELSE m[x]]

\* the range loop that re-keys the nested mapping into result
Flatten(result, jsonKey, valueMap) ==
  [x \in DOMAIN result \cup {Sprintf(jsonKey, valueKey) : valueKey \in DOMAIN valueMap} |->
     IF \E valueKey \in DOMAIN valueMap : x = Sprintf(jsonKey, valueKey)
     THEN valueMap[Tail(x)]
     ELSE result[x]]

\* a projection that keeps zero-valued fields
IsZeroFieldNever(f, fieldValue) == FALSE

IsZeroField(f, fieldValue) == DeepEqual(Zero(f.type), fieldValue)

\* a projection that stores a nested record whole
IsNestedStructNever(f) == FALSE

\* a projection that also recurses into what a pointer field refers to
IsNestedStructOrPointer(f) == ReflectKind(f.type) \in {"struct", "ptr"}

IsNestedStruct(f) == ReflectKind(f.type) = "struct"

\* a projection that does not consult the serialized form
InDataAlways(jsonKey, data) == TRUE

InData(jsonKey, data) == jsonKey \in DOMAIN data

\* a projection that stores a leaf under the field's own name
StoreLeafByFieldName(result, f, fieldValue) == Put(result, <<f.name>>, fieldValue)

StoreLeaf(result, f, fieldValue) == Put(result, <<JsonKey(f)>>, fieldValue)

RECURSIVE StructToM(_), FieldStep(_, _, _, _), StructLoop(_, _, _, _)
\* one iteration of the loop over the fields
FieldStep(f, fieldValue, data, result) ==
  LET jsonKey == JsonKey(f) IN
  IF ~InData(jsonKey, data) THEN Ret("ok", result)
  ELSE IF IsZeroField(f, fieldValue) THEN Ret("ok", result)
  ELSE IF IsNestedStruct(f)
       THEN LET sub == StructToM(Iface(f.type, fieldValue)) IN
            IF sub.out # "ok" THEN Ret(sub.out, <<>>)
            ELSE Ret("ok", Flatten(result, jsonKey, sub.m))
       ELSE Ret("ok", StoreLeaf(result, f, fieldValue))
StructLoop(fs, vs, data, n) ==
  IF n = 0 THEN Ret("ok", <<>>)
  ELSE LET prev == StructLoop(fs, vs, data, n - 1) IN
       IF prev.out # "ok" THEN prev
       ELSE FieldStep(fs[n], vs[n], data, prev.m)
StructToM(src) ==
  LET j == Marshal(src.type, src.val) IN
  IF j.err THEN Ret("err", <<>>)
  ELSE LET d == UnmarshalMap(j.json) IN
       IF d.err THEN Ret("err", <<>>)
       ELSE IF src.type.kind # "struct" THEN Ret("panic", <<>>)
       ELSE StructLoop(Fields(src.type.name), src.val.v, d.data, Len(Fields(src.type.name)))

\* the Serialized Intermediate Form of a model
Form(src) == UnmarshalMap(Marshal(src.type, src.val).json).data

----------------------------------------------------------------------------
(* The projection applied to every input *)

ModelNames == StructNames

ModelsOf(n) == {Iface(TStruct(n), v) : v \in ValuesOf(TStruct(n))}

Models == UNION {ModelsOf(n) : n \in ModelNames}

PointerSources == {Iface(TPtr("Item"), v) : v \in ValuesOf(TPtr("Item"))}

ScalarSources == {Iface(TInt, v) : v \in ValuesOf(TInt)}

Sources == Models \cup PointerSources \cup ScalarSources

NotCalled == Ret("none", <<>>)

Widget == Iface(TStruct("Item"), Val("struct", <<Val("string", "Widget"), Val("float", 0), Val("int", 5)>>))

InitProj ==
  /\ source \in Sources
  /\ projRet = NotCalled
  /\ CastIdle
  /\ CallsIdle
  /\ StoreIdle
  /\ RunIdle

Project ==
  /\ projRet = NotCalled
  /\ projRet' = StructToM(source)
  /\ UNCHANGED <<source, castVars, callVars, storeVars, runVars>>

NextProj == Project

SpecProj == InitProj /\ [][NextProj]_vars

----------------------------------------------------------------------------
(* StructToM called concurrently on one model, statement by statement *)

CallSources == ModelsOf("Address") \cup ModelsOf("Event") \cup {Widget}

InitCalls ==
  /\ model \in CallSources
  /\ callPc = [c \in Calls |-> "start"]
  /\ callLocal = [c \in Calls |-> NoLocal]
  /\ callResult = [c \in Calls |-> <<>>]
  /\ callRet = [c \in Calls |-> NotCalled]
  /\ source = Iface(TInt, Val("int", 0))
  /\ projRet = NotCalled
  /\ CastIdle
  /\ StoreIdle
  /\ RunIdle

\* calls that accumulate into one mapping kept outside the function
ResultOfShared(c) == 1

\* the mapping a call accumulates into: its own local, made by result := bson.M{}
ResultOf(c) == c

Return(c, r) ==
  /\ callPc' = [callPc EXCEPT ![c] = "done"]
  /\ callRet' = [callRet EXCEPT ![c] = r]

\* the call receives a copy of the model and marshals it
CallMarshal(c) ==
  /\ callPc[c] = "start"
  /\ LET j == Marshal(model.type, model.val) IN
     /\ callLocal' = [callLocal EXCEPT ![c] = [@ EXCEPT !.source = model, !.json = j.json]]
     /\ IF j.err
        THEN Return(c, Ret("err", <<>>))
        ELSE callPc' = [callPc EXCEPT ![c] = "unmarshal"] /\ UNCHANGED callRet
  /\ UNCHANGED <<model, callResult, projVars, castVars, storeVars, runVars>>

\* the call decodes the JSON into data, makes its result and enters the loop
CallUnmarshal(c) ==
  /\ callPc[c] = "unmarshal"
  /\ LET d == UnmarshalMap(callLocal[c].json) IN
     IF d.err
     THEN Return(c, Ret("err", <<>>)) /\ UNCHANGED <<callLocal, callResult>>
     ELSE /\ callLocal' = [callLocal EXCEPT ![c] = [@ EXCEPT !.data = d.data, !.i = 1]]
          /\ callResult' = [callResult EXCEPT ![ResultOf(c)] = <<>>]
          /\ IF callLocal[c].source.type.kind # "struct"
             THEN Return(c, Ret("panic", <<>>))
             ELSE callPc' = [callPc EXCEPT ![c] = "loop"] /\ UNCHANGED callRet
  /\ UNCHANGED <<model, projVars, castVars, storeVars, runVars>>

\* one iteration of the loop over the fields
CallField(c) ==
  /\ callPc[c] = "loop"
  /\ callLocal[c].i <= Len(Fields(callLocal[c].source.type.name))
  /\ LET src == callLocal[c].source
         i == callLocal[c].i
         r == FieldStep(Fields(src.type.name)[i], src.val.v[i], callLocal[c].data,
                        callResult[ResultOf(c)])
     IN IF r.out # "ok"
        THEN Return(c, r) /\ UNCHANGED <<callLocal, callResult>>
        ELSE /\ callResult' = [callResult EXCEPT ![ResultOf(c)] = r.m]
             /\ callLocal' = [callLocal EXCEPT ![c] = [@ EXCEPT !.i = i + 1]]
             /\ UNCHANGED <<callPc, callRet>>
  /\ UNCHANGED <<model, projVars, castVars, storeVars, runVars>>

\* return result, nil
CallReturn(c) ==
  /\ callPc[c] = "loop"
  /\ callLocal[c].i > Len(Fields(callLocal[c].source.type.name))
  /\ Return(c, Ret("ok", callResult[ResultOf(c)]))
  /\ UNCHANGED <<model, callLocal, callResult, projVars, castVars, storeVars, runVars>>

NextCalls ==
  \E c \in Calls : CallMarshal(c) \/ CallUnmarshal(c) \/ CallField(c) \/ CallReturn(c)

SpecCalls == InitCalls /\ [][NextCalls]_vars

----------------------------------------------------------------------------
(* StructToM run call by call: the stack holds one frame for each call of   *)
(* StructToM that has not returned, the innermost last.                     *)

RunSources == Sources

Frame(pc, src, data, i, result) ==
  [pc |-> pc, source |-> src, data |-> data, i |-> i, result |-> result]

\* the frame of a call that has just been made
Entered(src) == Frame("enter", src, <<>>, 0, <<>>)

Top == stack[Len(stack)]

Below == SubSeq(stack, 1, Len(stack) - 1)

InitRun ==
  /\ runSource \in RunSources
  /\ stack = <<>>
  /\ runRet = NotCalled
  /\ source = Iface(TInt, Val("int", 0))
  /\ projRet = NotCalled
  /\ CastIdle
  /\ CallsIdle
  /\ StoreIdle

\* the innermost call returns r: to the program when it is the first call,
\* else to the call that waits at valueMap, err := StructToM(...), which
\* merges the mapping under jsonKey and moves on, or takes the error branch
ReturnTo(r) ==
  IF Len(stack) = 1
  THEN stack' = <<>> /\ runRet' = r
  ELSE LET caller == stack[Len(stack) - 1]
           f == Fields(caller.source.type.name)[caller.i]
       IN /\ UNCHANGED runRet
          /\ IF r.out = "ok"
             THEN stack' = [Below EXCEPT ![Len(stack) - 1] =
                              [@ EXCEPT !.pc = "loop",
                                        !.result = Flatten(@, JsonKey(f), r.m),
                                        !.i = @ + 1]]
             ELSE stack' = [Below EXCEPT ![Len(stack) - 1] = [@ EXCEPT !.pc = "failed"]]

\* the program calls StructToM(source)
RunCall ==
  /\ stack = <<>>
  /\ runRet = NotCalled
  /\ stack' = <<Entered(runSource)>>
  /\ UNCHANGED <<runSource, runRet, projVars, castVars, callVars, storeVars>>

\* the statements before the loop; NumField panics on a source that is not
\* a struct and the panic unwinds every call
RunEnter ==
  /\ stack # <<>>
  /\ Top.pc = "enter"
  /\ LET j == Marshal(Top.source.type, Top.source.val)
         d == UnmarshalMap(j.json)
     IN IF j.err \/ d.err THEN ReturnTo(Ret("err", <<>>))
        ELSE IF Top.source.type.kind # "struct"
             THEN stack' = <<>> /\ runRet' = Ret("panic", <<>>)
             ELSE /\ stack' = [stack EXCEPT ![Len(stack)] =
                                 [@ EXCEPT !.pc = "loop", !.data = d.data, !.i = 1]]
                  /\ UNCHANGED runRet
  /\ UNCHANGED <<runSource, projVars, castVars, callVars, storeVars>>

\* the field the innermost call's loop is at
AtField == Top.pc = "loop" /\ Top.i <= Len(Fields(Top.source.type.name))

\* the loop is at a present, non-zero field of Kind Struct
AtNested ==
  LET f == Fields(Top.source.type.name)[Top.i] IN
  /\ InData(JsonKey(f), Top.data)
  /\ ~IsZeroField(f, Top.source.val.v[Top.i])
  /\ IsNestedStruct(f)

\* an iteration that skips the field or stores it as a leaf
RunField ==
  /\ stack # <<>>
  /\ AtField
  /\ ~AtNested
  /\ LET f == Fields(Top.source.type.name)[Top.i]
         fieldValue == Top.source.val.v[Top.i]
     IN stack' = [stack EXCEPT ![Len(stack)] =
                    [@ EXCEPT !.i = @ + 1,
                              !.result = IF InData(JsonKey(f), Top.data) /\ ~IsZeroField(f, fieldValue)
                                         THEN StoreLeaf(@, f, fieldValue)
                                         ELSE @]]
  /\ UNCHANGED <<runSource, runRet, projVars, castVars, callVars, storeVars>>

\* valueMap, err := StructToM(fieldValue.Interface())
RunRecurse ==
  /\ stack # <<>>
  /\ AtField
  /\ AtNested
  /\ LET f == Fields(Top.source.type.name)[Top.i] IN
     stack' = Append([stack EXCEPT ![Len(stack)] = [@ EXCEPT !.pc = "wait"]],
                     Entered(Iface(f.type, Top.source.val.v[Top.i])))
  /\ UNCHANGED <<runSource, runRet, projVars, castVars, callVars, storeVars>>

\* if err != nil { return nil, err }
RunFail ==
  /\ stack # <<>>
  /\ Top.pc = "failed"
  /\ ReturnTo(Ret("err", <<>>))
  /\ UNCHANGED <<runSource, projVars, castVars, callVars, storeVars>>

\* return result, nil
RunReturn ==
  /\ stack # <<>>
  /\ Top.pc = "loop"
  /\ Top.i > Len(Fields(Top.source.type.name))
  /\ ReturnTo(Ret("ok", Top.result))
  /\ UNCHANGED <<runSource, projVars, castVars, callVars, storeVars>>

NextRun == RunCall \/ RunEnter \/ RunField \/ RunRecurse \/ RunFail \/ RunReturn

SpecRun == InitRun /\ [][NextRun]_vars

----------------------------------------------------------------------------
(* The collection behind a Querier[Model]: the driver encodes documents by   *)
(* their bson annotations and evaluates filter and update documents.         *)

\* the key the driver stores a field under: the bson annotation's name, else
\* the field's name in lower case
BsonKey(f) == IF f.bson[1] # "" THEN f.bson[1] ELSE Lower(f.name)

BsonSkipped(f) == f.bson = <<"-">>

Null == Val("null", 0)

\* the driver's encoding of a model into a document
RECURSIVE BsonEncode(_, _), BsonFields(_, _, _)
BsonEncode(t, v) ==
  CASE t.kind = "chan" -> ErrV(Null)
    [] t.kind = "ptr" -> IF v = Nil THEN OkV(Null) ELSE BsonEncode(ElemType(t.name), v.v)
    [] t.kind = "struct" -> BsonFields(Fields(t.name), v.v, Len(Fields(t.name)))
    [] OTHER -> OkV(v)
BsonFields(fs, vs, n) ==
  IF n = 0 THEN OkV(Val("doc", <<>>))
  ELSE LET prev == BsonFields(fs, vs, n - 1) IN
       IF prev.err THEN prev
       ELSE IF BsonSkipped(fs[n]) THEN prev
       ELSE IF HasOpt(fs[n].bson, "omitempty") /\ vs[n] = Zero(fs[n].type) THEN prev
       ELSE LET e == BsonEncode(fs[n].type, vs[n]) IN
            IF e.err THEN e
            ELSE OkV(Val("doc", Put(prev.val.v, BsonKey(fs[n]), e.val)))

\* the driver's encoding of a value held in a bson.M
RECURSIVE EncodeAny(_)
EncodeAny(v) ==
  CASE v.k = "ptr" -> EncodeAny(v.v)
    [] v.k = "nil" -> Null
    [] OTHER -> v

\* the value a document holds at a dotted key
RECURSIVE Lookup(_, _)
Lookup(doc, key) ==
  IF key[1] \notin DOMAIN doc THEN [found |-> FALSE, val |-> Null]
  ELSE IF Len(key) = 1 THEN [found |-> TRUE, val |-> doc[key[1]]]
  ELSE IF doc[key[1]].k # "doc" THEN [found |-> FALSE, val |-> Null]
  ELSE Lookup(doc[key[1]].v, Tail(key))

\* field equality, the only condition a filter made by StructToM holds
Matches(doc, filterM) ==
  \A key \in DOMAIN filterM :
    LET l == Lookup(doc, key) IN l.found /\ l.val = EncodeAny(filterM[key])

Selected(c, filterM) == {i \in 1 .. Len(c) : Matches(c[i], filterM)}

\* $set of one dotted key
RECURSIVE SetPath(_, _, _)
SetPath(doc, key, v) ==
  IF Len(key) = 1 THEN Put(doc, key[1], v)
  ELSE LET sub == IF key[1] \in DOMAIN doc /\ doc[key[1]].k = "doc" THEN doc[key[1]].v ELSE <<>>
       IN Put(doc, key[1], Val("doc", SetPath(sub, Tail(key), v)))

\* {"$set": updateM} applied to a document; an empty $set changes nothing
\* (MongoDB 5.0 and later accept it)
RECURSIVE ApplySet(_, _)
ApplySet(doc, updateM) ==
  IF DOMAIN updateM = {} THEN doc
  ELSE LET key == CHOOSE k \in DOMAIN updateM : TRUE
           rest == [k \in DOMAIN updateM \ {key} |-> updateM[k]]
       IN ApplySet(SetPath(doc, key, EncodeAny(updateM[key])), rest)

\* the identifier the store gives the n-th inserted document
GenOid(n) ==
  CASE n = 1 -> "65a000000000000000000001"
    [] n = 2 -> "65a000000000000000000002"
    [] n = 3 -> "65a000000000000000000003"
    [] OTHER -> "65a000000000000000000004"

----------------------------------------------------------------------------
(* Querier *)

QuerierModels == {"Product", "Item", "Customer", "Bad", "Order", "Ticket", "Tag"}

NewQuerier(Model) ==
  [Model |-> Model, IDModel |-> TOid, IsIDComposite |-> FALSE]

NewQuerierWithCompositeID(Model, IDModel) ==
  [Model |-> Model, IDModel |-> IDModel, IsIDComposite |-> TRUE]

Queriers ==
  {NewQuerier(Model) : Model \in QuerierModels}
  \cup {NewQuerierWithCompositeID(Model, TStruct("Key")) : Model \in {"Order", "Ticket", "Tag"}}
  \cup {NewQuerierWithCompositeID("Tag", TString)}

\* the models the operations are called with: numbers zero or MaxInt, prices
\* and pointers unset, nested records with at most their first field set
RECURSIVE Small(_, _)
Small(t, v) ==
  CASE t.kind = "int" -> v.v \in {0, MaxInt}
    [] t.kind = "float" -> v.v = 0
    [] t.kind = "ptr" -> v = Nil
    [] t.kind = "struct" ->
         \A i \in 1 .. Len(Fields(t.name)) :
           IF i = 1 THEN Small(Fields(t.name)[i].type, v.v[i])
           ELSE v.v[i] = Zero(Fields(t.name)[i].type)
    [] OTHER -> TRUE

InputsOf(n) ==
  {v \in ValuesOf(TStruct(n)) :
     \A i \in 1 .. Len(Fields(n)) : Small(Fields(n)[i].type, v.v[i])}

InputTable == [n \in QuerierModels |-> InputsOf(n)]

Inputs(n) == InputTable[n]

\* filters set string fields only and updates leave them unset, as the
\* README's filter Product{Name: ...} and update Product{Quantity: ...} do
Filters(n) ==
  {v \in Inputs(n) :
     \A i \in 1 .. Len(Fields(n)) :
       Fields(n)[i].type.kind # "string" => v.v[i] = Zero(Fields(n)[i].type)}

Updates(n) ==
  {v \in Inputs(n) :
     \A i \in 1 .. Len(Fields(n)) :
       Fields(n)[i].type.kind = "string" => v.v[i] = Zero(Fields(n)[i].type)}

\* StructToM on the models the operations are called with, tabulated
Projection ==
  [n \in QuerierModels |-> [v \in Inputs(n) |-> StructToM(Iface(TStruct(n), v))]]

\* filters given as a primitive.M
MFilters == {<<>>, (<<"name">> :> Val("string", "Widget"))}

Op(o, f, u, fm, um, out, hit) ==
  [op |-> o, filter |-> f, update |-> u, filterM |-> fm, updateM |-> um,
   out |-> out, before |-> coll, hit |-> hit, insertedID |-> NoModel,
   err |-> IF out = "ok" THEN "nil" ELSE out]

Init ==
  /\ \E q \in Queriers :
       /\ qModel = q.Model
       /\ qIDModel = q.IDModel
       /\ qIsIDComposite = q.IsIDComposite
  /\ coll = <<>>
  /\ nextID = 1
  /\ lastOp = NoOp
  /\ source = Iface(TInt, Val("int", 0))
  /\ projRet = NotCalled
  /\ CastIdle
  /\ CallsIdle
  /\ RunIdle

\* res.InsertedID.(IDModel): the store hands the identifier back as the Go
\* value of its BSON type (primitive.ObjectID, string, float64, int32 or int64
\* for an integer, primitive.D for an embedded document), and the assertion
\* holds when that type is IDModel itself
AssertsTo(id, IDModel) ==
  \/ id.k = "oid" /\ IDModel = TOid
  \/ id.k = "string" /\ IDModel = TString
  \/ id.k = "float" /\ IDModel = TFloat

IDContainer(IDModel) ==
  TStruct(CASE IDModel = TStruct("Key") -> "IDContainer[Key]"
            [] IDModel = TString -> "IDContainer[string]"
            [] OTHER -> "IDContainer[ObjectID]")

\* the statements of InsertOne after a successful insert
InsertedID(document, id) ==
  IF AssertsTo(id, qIDModel) THEN [insertedID |-> id, err |-> "nil"]
  ELSE IF qIsIDComposite
       THEN LET idContainer == CastStruct(TStruct(qModel), IDContainer(qIDModel), document)
            IN [insertedID |-> idContainer.val.v[1],
                err |-> IF idContainer.err THEN "cast" ELSE "nil"]
       ELSE [insertedID |-> Zero(qIDModel), err |-> "ErrFailedToCastInsertedID"]

\* collection.InsertOne fails on a document the driver cannot encode and on an
\* _id the collection already holds; it generates the _id a document lacks
InsertOne(document) ==
  /\ nextID <= MaxDocs
  /\ LET e == BsonEncode(TStruct(qModel), document)
         failed == [Op("InsertOne", NoModel, document, <<>>, <<>>, "err", {})
                      EXCEPT !.insertedID = Zero(qIDModel), !.err = "store"]
     IN
     IF e.err
     THEN /\ lastOp' = failed
          /\ UNCHANGED <<coll, nextID>>
     ELSE LET doc == IF "_id" \in DOMAIN e.val.v /\ e.val.v["_id"] # Null
                     THEN e.val.v
                     ELSE Put(e.val.v, "_id", Val("oid", GenOid(nextID)))
              r == InsertedID(document, doc["_id"])
          IN IF \E i \in 1 .. Len(coll) : coll[i]["_id"] = doc["_id"]
             THEN /\ lastOp' = failed
                  /\ UNCHANGED <<coll, nextID>>
             ELSE /\ coll' = Append(coll, doc)
                  /\ nextID' = nextID + 1
                  /\ lastOp' = [Op("InsertOne", NoModel, document, <<>>, <<>>,
                                   IF r.err = "nil" THEN "ok" ELSE "err", {Len(coll) + 1})
                                  EXCEPT !.insertedID = r.insertedID, !.err = r.err]
  /\ UNCHANGED <<qModel, qIDModel, qIsIDComposite, projVars, castVars, callVars, runVars>>

Find(filter) ==
  /\ LET filterM == Projection[qModel][filter] IN
     IF filterM.out # "ok"
     THEN lastOp' = Op("Find", filter, NoModel, <<>>, <<>>, filterM.out, {})
     ELSE lastOp' = Op("Find", filter, NoModel, filterM.m, <<>>, "ok", Selected(coll, filterM.m))
  /\ UNCHANGED <<qModel, qIDModel, qIsIDComposite, coll, nextID, projVars, castVars, callVars, runVars>>

CountDocuments(filter) ==
  /\ LET filterM == Projection[qModel][filter] IN
     IF filterM.out # "ok"
     THEN lastOp' = Op("CountDocuments", filter, NoModel, <<>>, <<>>, filterM.out, {})
     ELSE lastOp' = Op("CountDocuments", filter, NoModel, filterM.m, <<>>, "ok",
                       Selected(coll, filterM.m))
  /\ UNCHANGED <<qModel, qIDModel, qIsIDComposite, coll, nextID, projVars, castVars, callVars, runVars>>

\* the documents of c at the indexes outside hit, in order
RECURSIVE Without(_, _, _)
Without(c, hit, n) ==
  IF n = 0 THEN <<>>
  ELSE IF n \in hit THEN Without(c, hit, n - 1)
  ELSE Append(Without(c, hit, n - 1), c[n])

DeleteMany(filter) ==
  /\ LET filterM == Projection[qModel][filter] IN
     IF filterM.out # "ok"
     THEN /\ lastOp' = Op("DeleteMany", filter, NoModel, <<>>, <<>>, filterM.out, {})
          /\ UNCHANGED coll
     ELSE LET hit == Selected(coll, filterM.m) IN
          /\ coll' = Without(coll, hit, Len(coll))
          /\ lastOp' = Op("DeleteMany", filter, NoModel, filterM.m, <<>>, "ok", hit)
  /\ UNCHANGED <<qModel, qIDModel, qIsIDComposite, nextID, projVars, castVars, callVars, runVars>>

First(hit) == CHOOSE i \in hit : \A i2 \in hit : i <= i2

\* FindOneAndUpdate: the first document the filter selects; none is an error
FindOneAndUpdate(o, filter, update, filterM, updateM) ==
  LET hit == Selected(coll, filterM) IN
  IF hit = {}
  THEN /\ lastOp' = Op(o, filter, update, filterM, updateM, "err", {})
       /\ UNCHANGED coll
  ELSE /\ coll' = [coll EXCEPT ![First(hit)] = ApplySet(@, updateM)]
       /\ lastOp' = Op(o, filter, update, filterM, updateM, "ok", {First(hit)})

\* collection.UpdateMany: every document the filter selects
StoreUpdateMany(o, filter, update, filterM, updateM) ==
  LET hit == Selected(coll, filterM) IN
  /\ coll' = [i \in 1 .. Len(coll) |-> IF i \in hit THEN ApplySet(coll[i], updateM) ELSE coll[i]]
  /\ lastOp' = Op(o, filter, update, filterM, updateM, "ok", hit)

Failed(o, filter, update, out) ==
  /\ lastOp' = Op(o, filter, update, <<>>, <<>>, out, {})
  /\ UNCHANGED coll

UpdateOne(filter, update) ==
  /\ LET filterM == Projection[qModel][filter]
         updateM == Projection[qModel][update]
     IN IF filterM.out # "ok" THEN Failed("UpdateOne", filter, update, filterM.out)
        ELSE IF updateM.out # "ok" THEN Failed("UpdateOne", filter, update, updateM.out)
        ELSE FindOneAndUpdate("UpdateOne", filter, update, filterM.m, updateM.m)
  /\ UNCHANGED <<qModel, qIDModel, qIsIDComposite, nextID, projVars, castVars, callVars, runVars>>

UpdateOneByM(filter, update) ==
  /\ LET updateM == Projection[qModel][update]
     IN IF updateM.out # "ok" THEN Failed("UpdateOneByM", NoModel, update, updateM.out)
        ELSE FindOneAndUpdate("UpdateOneByM", NoModel, update, filter, updateM.m)
  /\ UNCHANGED <<qModel, qIDModel, qIsIDComposite, nextID, projVars, castVars, callVars, runVars>>

UpdateMany(filter, update) ==
  /\ LET filterM == Projection[qModel][filter]
         updateM == Projection[qModel][update]
     IN IF filterM.out # "ok" THEN Failed("UpdateMany", filter, update, filterM.out)
        ELSE IF updateM.out # "ok" THEN Failed("UpdateMany", filter, update, updateM.out)
        ELSE StoreUpdateMany("UpdateMany", filter, update, filterM.m, updateM.m)
  /\ UNCHANGED <<qModel, qIDModel, qIsIDComposite, nextID, projVars, castVars, callVars, runVars>>

UpdateManyByM(filter, update) ==
  /\ LET updateM == Projection[qModel][update]
     IN IF updateM.out # "ok" THEN Failed("UpdateManyByM", NoModel, update, updateM.out)
        ELSE StoreUpdateMany("UpdateManyByM", NoModel, update, filter, updateM.m)
  /\ UNCHANGED <<qModel, qIDModel, qIsIDComposite, nextID, projVars, castVars, callVars, runVars>>

Next ==
  \/ \E document \in Inputs(qModel) : InsertOne(document)
  \/ \E filter \in Filters(qModel) : Find(filter)
  \/ \E filter \in Filters(qModel) : CountDocuments(filter)
  \/ \E filter \in Filters(qModel) : DeleteMany(filter)
  \/ \E filter \in Filters(qModel), update \in Updates(qModel) : UpdateOne(filter, update)
  \/ \E filter \in MFilters, update \in Updates(qModel) : UpdateOneByM(filter, update)
  \/ \E filter \in Filters(qModel), update \in Updates(qModel) : UpdateMany(filter, update)
  \/ \E filter \in MFilters, update \in Updates(qModel) : UpdateManyByM(filter, update)

Spec == Init /\ [][Next]_vars

----------------------------------------------------------------------------
(* Properties of the projection *)

Called == projRet # NotCalled

IsModel == source.type.kind = "struct"

\* index of the field of struct n whose external key is key
FieldIndex(n, key) == CHOOSE i \in 1 .. Len(Fields(n)) : JSONName(Fields(n)[i]) = key

HasField(n, key) == \E i \in 1 .. Len(Fields(n)) : JSONName(Fields(n)[i]) = key

\* the declared type and the model's value at a dotted key
RECURSIVE ResolvesAt(_, _), TypeAt(_, _), ValueAt(_, _, _)
ResolvesAt(t, key) ==
  /\ t.kind = "struct"
  /\ HasField(t.name, key[1])
  /\ Len(key) > 1 => ResolvesAt(Fields(t.name)[FieldIndex(t.name, key[1])].type, Tail(key))
TypeAt(t, key) ==
  LET ft == Fields(t.name)[FieldIndex(t.name, key[1])].type IN
  IF Len(key) = 1 THEN ft ELSE TypeAt(ft, Tail(key))
ValueAt(t, v, key) ==
  LET i == FieldIndex(t.name, key[1]) IN
  IF Len(key) = 1 THEN v.v[i] ELSE ValueAt(Fields(t.name)[i].type, v.v[i], Tail(key))

WidgetM == (<<"quantity">> :> Val("int", 5)) @@ (<<"name">> :> Val("string", "Widget"))

\* C1: the projection of a model holds no key whose value is the zero value of
\* the field the key comes from, at the top level and inside flattened nested
\* records; {Name: "Widget", Price: 0.0, Quantity: 5} yields exactly
\* {"quantity": 5, "name": "Widget"}.
C1_ZeroValueElision ==
  (Called /\ IsModel) =>
    /\ projRet.out = "ok" =>
         \A key \in DOMAIN projRet.m :
           /\ ResolvesAt(source.type, key)
           /\ projRet.m[key] = ValueAt(source.type, source.val, key)
           /\ projRet.m[key] # Zero(TypeAt(source.type, key))
    /\ source = Widget => projRet = Ret("ok", WidgetM)

C1_Witness == source = Widget /\ projRet.out = "ok" /\ <<"price">> \notin DOMAIN projRet.m

CityOnly ==
  Iface(TStruct("Customer"),
        Val("struct", <<Val("string", ""),
                        Val("struct", <<Val("string", "Widget"), Val("string", ""),
                                        Val("struct", <<Val("int", 0)>>)>>)>>))

NestedFields(n) == {i \in 1 .. Len(Fields(n)) : Fields(n)[i].type.kind = "struct"}

\* the entries of m under the key prefix, with the prefix removed
Under(m, prefix) ==
  [c \in {Tail(key) : key \in {x \in DOMAIN m : Len(x) > 1 /\ x[1] = prefix}} |-> m[<<prefix>> \o c]]

\* C2: a nested struct field is never emitted as a single key under its own
\* external name; the entries of the projection of the nested value appear as
\* "parentKey.childKey", at every depth, zero-valued children left out; a
\* model with only addr.city set yields exactly {"addr.city": value}.
C2_NestedFlattening ==
  (Called /\ IsModel /\ projRet.out = "ok") =>
    /\ \A key \in DOMAIN projRet.m :
         ResolvesAt(source.type, key) /\ TypeAt(source.type, key).kind # "struct"
    /\ \A i \in NestedFields(source.type.name) :
         LET f == Fields(source.type.name)[i]
             sub == StructToM(Iface(f.type, source.val.v[i]))
         IN /\ <<JSONName(f)>> \notin DOMAIN projRet.m
            /\ sub.out = "ok"
            /\ Under(projRet.m, JSONName(f)) = sub.m
    /\ source = CityOnly => projRet.m = (<<"addr", "city">> :> Val("string", "Widget"))

C2_Witness ==
  /\ source.type = TStruct("Customer")
  /\ projRet.out = "ok"
  /\ <<"addr", "city">> \in DOMAIN projRet.m
  /\ <<"addr", "geo", "lat">> \in DOMAIN projRet.m
  /\ <<"addr", "zip">> \notin DOMAIN projRet.m

\* C5: every call of StructToM, on a model, a pointer to a model or a
\* non-struct value, returns a mapping without error or an error without a
\* mapping; it never panics.
C5_NoOtherOutcome == Called => projRet.out \in {"ok", "err"}

FormKeys == {<<key>> : key \in DOMAIN Form(source)}

\* C8 as stated: every key of the projection is a key of the Serialized
\* Intermediate Form of the model.
C8_KeysAreFormKeys ==
  (Called /\ IsModel /\ projRet.out = "ok") => DOMAIN projRet.m \subseteq FormKeys

\* C8: every key of the projection is a key of the Serialized Intermediate
\* Form, or k.c for a key k of the form that names a nested record field and a
\* key c of that field's projection; a field whose external key is absent from
\* the form contributes no key.
C8_KeysComeFromForm ==
  (Called /\ IsModel /\ projRet.out = "ok") =>
    /\ \A key \in DOMAIN projRet.m :
         \/ key \in FormKeys
         \/ /\ <<key[1]>> \in FormKeys
            /\ \E i \in NestedFields(source.type.name) :
                 LET f == Fields(source.type.name)[i] IN
                 /\ JSONName(f) = key[1]
                 /\ Tail(key) \in DOMAIN StructToM(Iface(f.type, source.val.v[i])).m
    /\ \A i \in 1 .. Len(Fields(source.type.name)) :
         LET f == Fields(source.type.name)[i] IN
         (f.json[1] \notin DOMAIN Form(source) /\ f.name \notin DOMAIN Form(source)) =>
           \A key \in DOMAIN projRet.m : key[1] \notin {f.json[1], f.name}

C8_Witness ==
  /\ source.type = TStruct("Event")
  /\ source.val.v[3] = Val("string", "Widget")
  /\ "-" \notin DOMAIN Form(source)
  /\ projRet.out = "ok"
  /\ <<"title">> \in DOMAIN projRet.m

Flat(n) == NestedFields(n) = {}

\* C9: for a model without nested record fields, every key of the projection
\* is the external key name of one field of the model's type (the json
\* annotation before the first comma, else the field's name) and has no dot.
C9_FlatKeysUndotted ==
  (Called /\ IsModel /\ Flat(source.type.name) /\ projRet.out = "ok") =>
    \A key \in DOMAIN projRet.m :
      /\ Len(key) = 1
      /\ \E i \in 1 .. Len(Fields(source.type.name)) :
           LET f == Fields(source.type.name)[i] IN
           key[1] = (IF f.json[1] # "" THEN f.json[1] ELSE f.name)

C9_Witness ==
  /\ source.type = TStruct("Note")
  /\ projRet.out = "ok"
  /\ DOMAIN projRet.m = {<<"text">>, <<"ref">>, <<"Count">>}

\* the fields the loop acts on: present in the serialized form and not zero
Present(src) ==
  {i \in 1 .. Len(Fields(src.type.name)) :
     /\ JsonKey(Fields(src.type.name)[i]) \in DOMAIN Form(src)
     /\ src.val.v[i] # Zero(Fields(src.type.name)[i].type)}

\* the field is stored whole, unchanged, under its external key name
StoredAsLeaf(m, k, fieldValue) ==
  /\ <<k>> \in DOMAIN m
  /\ m[<<k>>] = fieldValue
  /\ Under(m, k) = <<>>

\* the field's projection is merged into m under externalKeyName.childKey
StoredFlattened(m, k, t, fieldValue) ==
  /\ <<k>> \notin DOMAIN m
  /\ Under(m, k) = StructToM(Iface(t, fieldValue)).m

\* C11: on a model that json.Marshal encodes the call succeeds, and each
\* present, non-zero field is recursively projected and re-keyed when its type
\* is a nested record of the model, and otherwise (a primitive, a timestamp,
\* a pointer to a record) stored unchanged under its external key name.
C11_LeafOrNested ==
  (Called /\ IsModel /\ ~Marshal(source.type, source.val).err) =>
    /\ projRet.out = "ok"
    /\ \A i \in Present(source) :
         LET f == Fields(source.type.name)[i] IN
         IF f.type.kind = "struct"
         THEN StoredFlattened(projRet.m, JsonKey(f), f.type, source.val.v[i])
         ELSE StoredAsLeaf(projRet.m, JsonKey(f), source.val.v[i])

----------------------------------------------------------------------------
(* Properties of the recursion *)

RunReturned == stack = <<>> /\ runRet # NotCalled

MaxOf(S) == IF S = {} THEN 0 ELSE CHOOSE x \in S : \A y \in S : y <= x

\* the number of values of Kind Struct along the deepest by-value path of a
\* type: its records within records, and a timestamp at the end of the path
RECURSIVE NestingDepth(_)
NestingDepth(t) ==
  CASE t.kind = "struct" ->
         1 + MaxOf({NestingDepth(Fields(t.name)[i].type) : i \in 1 .. Len(Fields(t.name))})
    [] t.kind = "time" -> 1
    [] OTHER -> 0

\* a call on a source that is not a record is one call deep
DepthBound(t) == IF t.kind = "struct" THEN NestingDepth(t) ELSE 1

\* a record type with a field that points to a record of the same type
SelfReferential(t) ==
  /\ t.kind = "struct"
  /\ \E i \in 1 .. Len(Fields(t.name)) : Fields(t.name)[i].type = TPtr(t.name)

\* C12 as stated: on the models of a self-referential record type and of a
\* record type that nests records, the recursive projection does not come to
\* an end.
C12_NeverReturns ==
  (SelfReferential(runSource.type) \/ NestingDepth(runSource.type) > 1) => ~RunReturned

\* the statements a call on a value of type t executes at most, and those a
\* field and the fields from..n of a record add to it
RECURSIVE Work(_), FieldWork(_), FieldsWork(_, _, _)
Work(t) ==
  1 + (IF t.kind = "struct"
       THEN FieldsWork(Fields(t.name), 1, Len(Fields(t.name))) + 1
       ELSE 0)
FieldWork(f) == 1 + (IF ReflectKind(f.type) = "struct" THEN Work(f.type) ELSE 0)
FieldsWork(fs, from, n) ==
  IF from > n THEN 0 ELSE FieldWork(fs[from]) + FieldsWork(fs, from + 1, n)

\* the statements the call of a frame has left at most, its callee's apart
FrameLeft(fr) ==
  LET fs == Fields(fr.source.type.name) IN
  CASE fr.pc = "enter" -> Work(fr.source.type)
    [] fr.pc = "loop" -> FieldsWork(fs, fr.i, Len(fs)) + 1
    [] fr.pc = "wait" -> FieldsWork(fs, fr.i + 1, Len(fs)) + 1
    [] fr.pc = "failed" -> 1

RECURSIVE FramesLeft(_)
FramesLeft(n) == IF n = 0 THEN 0 ELSE FramesLeft(n - 1) + FrameLeft(stack[n])

\* a bound on the statements left before StructToM(runSource) has returned
StepsLeft ==
  IF stack # <<>> THEN FramesLeft(Len(stack))
  ELSE IF runRet = NotCalled THEN 1 + Work(runSource.type)
  ELSE 0

\* the program is about to call StructToM, or the innermost call is at one of
\* its statements: RunCall, RunEnter, RunField or RunRecurse, RunFail or
\* RunReturn is enabled
CanStep ==
  IF stack = <<>> THEN runRet = NotCalled
  ELSE \/ Top.pc \in {"enter", "failed"}
       \/ Top.pc = "loop" /\ Top.i \in 1 .. Len(Fields(Top.source.type.name)) + 1

\* C12: StructToM has no depth limit of its own, yet on every source the
\* calls in progress never outnumber the records the source's declared type
\* nests by value (a pointer to a record of the same type is not followed),
\* the call can always take a step until it has returned, every step uses up
\* one of finitely many steps left, and what is returned is the projection
\* of the source.
C12_RecursionEnds ==
  /\ [](/\ Len(stack) <= DepthBound(runSource.type)
        /\ RunReturned => runRet = StructToM(runSource)
        /\ RunReturned \/ CanStep
        /\ StepsLeft \in Nat)
  /\ [][StepsLeft' < StepsLeft]_vars

C12_Witness ==
  /\ runSource.type = TStruct("Node")
  /\ runSource.val.v[2] = Val("ptr", Val("struct", <<Val("int", MaxInt), Nil>>))
  /\ RunReturned
  /\ runRet.out = "ok"
  /\ runRet.m[<<"next">>] = runSource.val.v[2]

----------------------------------------------------------------------------
(* Properties of the cast *)

KeyedFields(n) == {i \in 1 .. Len(Fields(n)) : ~JSONSkipped(Fields(n)[i])}

Keys(n) == {JSONName(Fields(n)[i]) : i \in KeyedFields(n)}

CastDone == castDst # NoCast /\ ~castDst.err /\ castBack # NoCast

\* the round trip kept the shared fields and left the others zero
RoundTripOn(shared) ==
  \A i \in KeyedFields(castS) :
    LET f == Fields(castS)[i] IN
    IF JSONName(f) \in Keys(castD)
    THEN i \in shared => castBack.val.v[i] = castSrc.v[i]
    ELSE castBack.val.v[i] = Zero(f.type)

\* C6 as stated: when CastStruct[S,D](s) succeeds, the cast back succeeds and
\* agrees with s on every field whose key both types have; the other fields
\* of S are zero in the result.
C6_CastRoundTrip ==
  CastDone => (~castBack.err /\ RoundTripOn(KeyedFields(castS)))

\* integers, floats, strings, object ids, pointers to these, and records
\* whose serialized fields are of such types under keys distinct up to case
RECURSIVE Plain(_)
Plain(t) ==
  CASE t.kind \in {"int", "float", "string", "oid"} -> TRUE
    [] t.kind = "ptr" -> t.name \in {"int", "oid"}
    [] t.kind = "struct" ->
         /\ \A i \in KeyedFields(t.name) : Plain(Fields(t.name)[i].type)
         /\ \A i, i2 \in KeyedFields(t.name) :
              EqualFold(JSONName(Fields(t.name)[i]), JSONName(Fields(t.name)[i2])) => i = i2
    [] OTHER -> FALSE

\* keys of S and D that agree up to letter case are the same key of the same type
Compatible(S, D) ==
  /\ Plain(TStruct(S))
  /\ Plain(TStruct(D))
  /\ \A i \in KeyedFields(S), i2 \in KeyedFields(D) :
       LET f == Fields(S)[i]
           g == Fields(D)[i2]
       IN EqualFold(JSONName(f), JSONName(g)) => (JSONName(f) = JSONName(g) /\ f.type = g.type)

\* C6: for record types S and D of plain serialized fields whose keys, where
\* equal up to letter case, are identical and of the same declared type: when
\* CastStruct[S,D](s) succeeds, the cast back succeeds and agrees with s on
\* every field whose key both types have; the other fields of S are zero.
C6_CastRoundTripCompatible ==
  (CastDone /\ Compatible(castS, castD)) =>
    (~castBack.err /\ RoundTripOn(KeyedFields(castS)))

C6_Witness ==
  /\ castS = "Item"
  /\ castD = "Customer"
  /\ Compatible(castS, castD)
  /\ castSrc.v[1] = Val("string", "Widget")
  /\ castSrc.v[3] = Val("int", 5)
  /\ CastDone
  /\ castBack.val.v[1] = Val("string", "Widget")
  /\ castBack.val.v[3] = Val("int", 0)

----------------------------------------------------------------------------
(* Properties of concurrent calls *)

\* a step changed something of call c
Moved(c) == callPc'[c] # callPc[c] \/ callLocal'[c] # callLocal[c]

\* every finished call returned what one call alone returns on the model
CallsAgree ==
  \A c \in Calls : callPc[c] = "done" =>
    /\ callRet[c] = StructToM(model)
    /\ \A c2 \in Calls : callPc[c2] = "done" => callRet[c2] = callRet[c]

\* a step leaves the model alone and touches the result and the return value
\* of the call that takes it only
CallsIsolated ==
  /\ model' = model
  /\ \A c \in Calls :
       (callResult'[c] # callResult[c] \/ callRet'[c] # callRet[c]) => Moved(c)

\* C7: calls of StructToM on equal models, interleaved in any order, return
\* identical mappings, leave the model unmodified and share no state.
C7_PurityUnderInterleaving == [](CallsAgree) /\ [][CallsIsolated]_vars

C7_Witness ==
  /\ model = Widget
  /\ callPc[1] = "loop" /\ callLocal[1].i = 2
  /\ callPc[2] = "done" /\ callRet[2] = Ret("ok", WidgetM)
  /\ callResult[1] = (<<"name">> :> Val("string", "Widget"))

----------------------------------------------------------------------------
(* Properties of the Querier operations *)

\* the document with every non-zero field of the model v stored under the
\* key the driver gives that field, nested records field by field
RECURSIVE SetFields(_, _, _, _, _)
SetFields(doc, fs, vs, prefix, n) ==
  IF n = 0 THEN doc
  ELSE LET prev == SetFields(doc, fs, vs, prefix, n - 1)
           path == Append(prefix, BsonKey(fs[n]))
       IN IF vs[n] = Zero(fs[n].type) THEN prev
          ELSE IF fs[n].type.kind = "struct"
               THEN SetFields(prev, Fields(fs[n].type.name), vs[n].v, path,
                              Len(Fields(fs[n].type.name)))
               ELSE SetPath(prev, path, EncodeAny(vs[n]))

WithFields(doc, v) == SetFields(doc, Fields(qModel), v.v, <<>>, Len(Fields(qModel)))

\* the document holds every non-zero field of the model
Holds(doc, v) == WithFields(doc, v) = doc

\* C3: with the README's Product model, Find with a Product filter returns
\* the documents that hold the filter's fields, so the document inserted from
\* Product{Name: n, ...} is found by the filter Product{Name: n}.
C3_InsertThenFind ==
  (qModel = "Product" /\ lastOp.op = "Find" /\ lastOp.out = "ok") =>
    lastOp.hit = {i \in 1 .. Len(coll) : Holds(coll[i], lastOp.filter)}

UpdateOps == {"UpdateOne", "UpdateOneByM", "UpdateMany", "UpdateManyByM"}

\* C4: the update operations send {"$set": StructToM(update)}; in every
\* matched document exactly the non-zero fields of the update model take the
\* update's values, and everything else is unchanged.
C4_PartialUpdate ==
  (lastOp.op \in UpdateOps /\ lastOp.out = "ok") =>
    /\ lastOp.updateM = StructToM(Iface(TStruct(qModel), lastOp.update)).m
    /\ Len(coll) = Len(lastOp.before)
    /\ \A i \in 1 .. Len(coll) :
         coll[i] = IF i \in lastOp.hit
                   THEN WithFields(lastOp.before[i], lastOp.update)
                   ELSE lastOp.before[i]

FilterOps == {"Find", "CountDocuments", "DeleteMany"}

EmptyFilter ==
  /\ lastOp.op \in FilterOps
  /\ lastOp.filter = Zero(TStruct(qModel))

SelectsAll ==
  /\ lastOp.out = "ok"
  /\ lastOp.filterM = <<>>
  /\ lastOp.hit = 1 .. Len(lastOp.before)
  /\ lastOp.op = "DeleteMany" => coll = <<>>

\* C10 as stated: a model whose fields are all zero projects to the empty
\* mapping without error, and as a filter selects every document.
C10_EmptyModel == EmptyFilter => SelectsAll

\* json.Marshal has an encoder for every field of the type
RECURSIVE Encodable(_)
Encodable(t) ==
  CASE t.kind = "chan" -> FALSE
    [] t.kind = "struct" ->
         \A i \in 1 .. Len(Fields(t.name)) :
           JSONSkipped(Fields(t.name)[i]) \/ Encodable(Fields(t.name)[i].type)
    [] OTHER -> TRUE

\* C10: a model whose fields are of JSON-encodable types and all zero
\* projects to the empty mapping without error, and as a filter of Find,
\* CountDocuments or DeleteMany selects every document of the collection.
C10_EmptyEncodableModel ==
  (EmptyFilter /\ Encodable(TStruct(qModel))) => SelectsAll

C10_Witness ==
  /\ EmptyFilter
  /\ lastOp.op = "DeleteMany"
  /\ Len(lastOp.before) = MaxDocs
  /\ lastOp.hit = 1 .. MaxDocs
  /\ coll = <<>>

\* the insert of the last InsertOne succeeded
Inserted == lastOp.op = "InsertOne" /\ lastOp.hit # {}

\* the identifier the store returned for the document inserted last
StoreID == coll[Len(lastOp.before) + 1]["_id"]

\* the field of the model the store keeps as _id
IDField(n) == CHOOSE i \in 1 .. Len(Fields(n)) : BsonKey(Fields(n)[i]) = "_id"

\* C13: an InsertOne whose store insert fails returns that error and no
\* identifier; one whose store insert succeeds with an identifier that is not
\* of type IDModel returns, from a querier made by NewQuerierWithCompositeID,
\* the _id value of the inserted model with no error, or the error of
\* CastStruct[Model, IDContainer[IDModel]] when that cast fails, and from a
\* querier made by NewQuerier ErrFailedToCastInsertedID.
C13_InsertedIDCoercion ==
  lastOp.op = "InsertOne" =>
    IF ~Inserted
    THEN /\ lastOp.err = "store"
         /\ lastOp.insertedID = Zero(qIDModel)
         /\ coll = lastOp.before
    ELSE ~AssertsTo(StoreID, qIDModel) =>
           IF qIsIDComposite
           THEN IF CastStruct(TStruct(qModel), IDContainer(qIDModel), lastOp.update).err
                THEN lastOp.err = "cast"
                ELSE /\ lastOp.err = "nil"
                     /\ lastOp.insertedID = lastOp.update.v[IDField(qModel)]
           ELSE lastOp.err = "ErrFailedToCastInsertedID"

====
